---------------------------- MODULE Spec2Model ----------------------------
(***************************************************************************)
(* Model of the `forge script` orchestrator, ScriptArgs::run_script and    *)
(* its helpers in crates/forge/bin/cmd/script/cmd.rs.                      *)
(*                                                                         *)
(* One run of run_script is one behaviour, under the sender that lines     *)
(* 43-45 settle on.  The command-line flags, the presence of a fork URL    *)
(* and the persisted records are chosen in Init;                           *)
(* what the collaborators return (nonce fetches, the compiler, the linker, *)
(* the executor, the sequence store, the receipt poller, the sender) is    *)
(* drawn where the code calls them.  `log` lists the collaborator calls in *)
(* the order the code makes them.                                          *)
(***************************************************************************)
EXTENDS Integers, Sequences, FiniteSets

\* ---- bounds ------------------------------------------------------------
MaxNonce == 1      \* on-chain nonces are drawn from 0..MaxNonce
MaxLibs == 2       \* at most MaxLibs predeploy libraries
MaxTxs == 2        \* the script body generates at most MaxTxs transactions
MaxSeq == 3        \* a persisted sequence holds at most MaxSeq transactions

\* ---- value sets --------------------------------------------------------
DefaultSender == "S"
Addresses == {"S", "S2"}
Nonces == 0..MaxNonce
Libs == 1..MaxLibs
Modes == {"broadcast", "dry-run"}
Receipts == {"confirmed", "pending", "unsent"}
RecordStates == {"absent", "unreadable", "present"}

Some(x) == [some |-> TRUE, val |-> x]
NoneSeq == [some |-> FALSE, val |-> <<>>]
NoneAddr == [some |-> FALSE, val |-> ""]

\* ordered lists of distinct libraries, at most MaxLibs long
LibLists ==
    UNION {{s \in [1..n -> Libs] : \A i, j \in 1..n : i # j => s[i] # s[j]} :
             n \in 0..MaxLibs}

NoErr == [msg |-> "", multi_hint |-> FALSE]
Err(m) == [msg |-> m, multi_hint |-> FALSE]
NoRpcUrl == "You must provide an RPC URL (see --fork-url) when broadcasting."
MissingForkUrl == "Missing --fork-url field."
IncompleteLibs == "Incomplete set of libraries in deployment artifact."
TargetNotFound == "target not found in linked artifacts"

\* a collaborator call that returned, and one that returned an error
Ok(op) == [op |-> op, ok |-> TRUE]
Ko(op) == [op |-> op, ok |-> FALSE]

VARIABLES
    args,                 \* self: the flags resume, verify, broadcast, json, debug, multi
    script_config,        \* sender, sender_nonce, fork_url (present or not), libraries
    store,                \* the persisted record of each mode: absent, unreadable or present
    pc,                   \* position in run_script
    err,                  \* the error run_script returned, NoErr while none
    log,                  \* collaborator calls made so far, in order
    fetched,              \* what the latest next_nonce call returned
    predeploy_libraries,  \* BuildOutput.predeploy_libraries
    result,               \* the ScriptResult: transactions (optional) and the pass that made it
    new_sender,           \* the sender maybe_new_sender returned
    relinked_libraries,   \* predeploy_libraries returned by the latest link_script_target
    linked,               \* the sender and nonce the latest link_script_target was given
    deployment_sequence,  \* the loaded ScriptSequence: mode loaded from, receipt state per tx
    attempted,            \* indices of the sequence's transactions a send was attempted for
    handed                \* the queue given to handle_broadcastable_transactions

vars == <<args, script_config, store, pc, err, log, fetched, predeploy_libraries, result,
          new_sender, relinked_libraries, linked, deployment_sequence, attempted, handed>>

NoResult == [transactions |-> NoneSeq, pass |-> 0]
NoSequence == [mode |-> "", txs |-> <<>>]
NoNonce == [some |-> FALSE, val |-> 0]
NoLink == [sender |-> "", nonce |-> 0]

Called(op) == \E i \in 1..Len(log) : log[i].op = op
FailedCall(op) == \E i \in 1..Len(log) : log[i].op = op /\ ~log[i].ok
Count(op) == Cardinality({i \in 1..Len(log) : log[i].op = op})

\* ---- collaborators that live outside cmd.rs ------------------------------

\* create_deploy_transactions: one deployment per library, in list order,
\* from `from`, with nonces nonce, nonce+1, ...
create_deploy_transactions(from, nonce, data, fork_url) ==
    [i \in 1..Len(data) |->
        [kind |-> "lib", data |-> data[i], from |-> from, nonce |-> nonce + (i - 1),
         rpc |-> fork_url, pass |-> 0, expects |-> from]]

\* The transactions one execute() generates: m transactions of the pass's
\* sender, numbered after the k predeploy deployments; `d` is the deployer
\* whose predicted library addresses they reference.
BodyTxs(sender, nonce, k, m, d, pass, fork_url) ==
    [i \in 1..m |->
        [kind |-> "body", data |-> i, from |-> sender, nonce |-> nonce + k + (i - 1),
         rpc |-> fork_url, pass |-> pass, expects |-> d]]

\* Every ScriptResult execute() can return: no transaction list at all, or a
\* list of 0..MaxTxs transactions.
ExecuteResults(sender, nonce, libs, pass, fork_url) ==
    {[transactions |-> NoneSeq, pass |-> pass]} \cup
    {[transactions |-> Some(BodyTxs(sender, nonce, Len(libs), m, d, pass, fork_url)),
      pass |-> pass] : m \in 0..MaxTxs, d \in Addresses}

\* maybe_new_sender: with predeploy libraries and generated transactions that
\* reference another deployer's library addresses, that deployer.
maybe_new_sender(sender, transactions, libs) ==
    IF /\ transactions.some
       /\ libs # <<>>
       /\ \E i \in 1..Len(transactions.val) : transactions.val[i].expects # sender
    THEN LET i == CHOOSE j \in 1..Len(transactions.val) :
                      transactions.val[j].expects # sender
         IN  [some |-> TRUE, val |-> transactions.val[i].expects]
    ELSE NoneAddr

\* ---- run_script ------------------------------------------------------------

Init ==
    /\ args \in [resume : BOOLEAN, verify : BOOLEAN, broadcast : BOOLEAN,
                 json : BOOLEAN, debug : BOOLEAN, multi : BOOLEAN]
    /\ script_config \in [sender : {DefaultSender}, sender_nonce : {1},
                          fork_url : BOOLEAN, libraries : {"configured"}]
    /\ store \in [Modes -> RecordStates]
    /\ pc = "next_nonce"
    /\ err = NoErr
    /\ log = <<>>
    /\ fetched = NoNonce
    /\ predeploy_libraries = <<>>
    /\ result = NoResult
    /\ new_sender = NoneAddr
    /\ relinked_libraries = <<>>
    /\ linked = NoLink
    /\ deployment_sequence = NoSequence
    /\ attempted = {}
    /\ handed = NoneSeq

\* a `?` that returns the error e from run_script at position `at`, after the
\* calls `ops`
Fail(at, ops, e) ==
    /\ pc = at
    /\ pc' = "error"
    /\ err' = e
    /\ log' = log \o ops
    /\ UNCHANGED <<args, script_config, store, fetched, predeploy_libraries, result,
                   new_sender, relinked_libraries, linked, deployment_sequence, attempted, handed>>

\* lines 47-50, with a fork URL: the sender's on-chain nonce
NextNonce ==
    /\ pc = "next_nonce"
    /\ script_config.fork_url
    /\ \E n \in Nonces :
          /\ script_config' = [script_config EXCEPT !.sender_nonce = n]
          /\ fetched' = [some |-> TRUE, val |-> n]
    /\ log' = Append(log, Ok("next_nonce"))
    /\ pc' = "compile"
    /\ UNCHANGED <<args, store, err, predeploy_libraries, result, new_sender,
                   relinked_libraries, linked, deployment_sequence, attempted, handed>>

NextNonceFails ==
    /\ script_config.fork_url
    /\ Fail("next_nonce", <<Ko("next_nonce")>>, Err("next_nonce"))

\* mutant: without a fork URL the configured library addresses are kept
NoForkKeepsLibraries ==
    /\ pc = "next_nonce"
    /\ ~script_config.fork_url
    /\ pc' = "compile"
    /\ UNCHANGED <<args, script_config, store, err, log, fetched, predeploy_libraries,
                   result, new_sender, relinked_libraries, linked, deployment_sequence,
                   attempted, handed>>

\* lines 51-54, no fork URL: configured library addresses are ignored
NoFork ==
    /\ pc = "next_nonce"
    /\ ~script_config.fork_url
    /\ script_config' = [script_config EXCEPT !.libraries = "empty"]
    /\ pc' = "compile"
    /\ UNCHANGED <<args, store, err, log, fetched, predeploy_libraries, result, new_sender,
                   relinked_libraries, linked, deployment_sequence, attempted, handed>>

\* lines 56-74
Compile ==
    /\ pc = "compile"
    /\ \E libs \in LibLists : predeploy_libraries' = libs
    /\ log' = Append(log, Ok("compile"))
    /\ pc' = "execute"
    /\ UNCHANGED <<args, script_config, store, err, fetched, result, new_sender,
                   relinked_libraries, linked, deployment_sequence, attempted, handed>>

CompileFails == Fail("compile", <<Ko("compile")>>, Err("compile"))

\* line 79
MultiWalletFails == Fail("execute", <<Ko("get_multi_wallet")>>, Err("get_multi_wallet"))

\* lines 84-92: execute once with the default sender
Execute ==
    /\ pc = "execute"
    /\ \E r \in ExecuteResults(script_config.sender, script_config.sender_nonce,
                               predeploy_libraries, 1, script_config.fork_url) :
          result' = r
    /\ log' = Append(log, Ok("execute"))
    /\ pc' = "branch"
    /\ UNCHANGED <<args, script_config, store, err, fetched, predeploy_libraries,
                   new_sender, relinked_libraries, linked, deployment_sequence, attempted, handed>>

ExecuteFails == Fail("execute", <<Ko("execute")>>, Err("execute"))

\* mutant: only --resume takes the resume path
ResumeOnly(a) == a.resume

\* line 94
ResumeOrVerifyOnly(a) == a.resume \/ (a.verify /\ ~a.broadcast)

\* mutant: the resume check is made before the script is executed
ResumeBranchBeforeExecute ==
    /\ pc = "execute"
    /\ ResumeOrVerifyOnly(args)
    /\ pc' = "resume_deployment"
    /\ log' = Append(log, Ok("resume_deployment"))
    /\ result' = NoResult
    /\ predeploy_libraries' = <<>>
    /\ UNCHANGED <<args, script_config, store, err, fetched, new_sender,
                   relinked_libraries, linked, deployment_sequence, attempted, handed>>

\* lines 94-97: resume_deployment gets script_config, linker, libraries,
\* verify and the signers; the ScriptResult and predeploy_libraries of the
\* execution are not passed on
ResumeBranch ==
    /\ pc = "branch"
    /\ ResumeOrVerifyOnly(args)
    /\ pc' = "resume_deployment"
    /\ log' = Append(log, Ok("resume_deployment"))
    /\ result' = NoResult
    /\ predeploy_libraries' = <<>>
    /\ UNCHANGED <<args, script_config, store, err, fetched, new_sender,
                   relinked_libraries, linked, deployment_sequence, attempted, handed>>

\* line 95
ResumeSignersFail ==
    /\ ResumeOrVerifyOnly(args)
    /\ Fail("branch", <<Ko("into_signers")>>, Err("into_signers"))

AfterDecode(a) == IF a.debug THEN "debugger" ELSE "maybe_prepare_libraries"

\* lines 99-100
DecodeTraces ==
    /\ pc = "branch"
    /\ ~ResumeOrVerifyOnly(args)
    /\ pc' = AfterDecode(args)
    /\ log' = Append(log, Ok("decode_traces"))
    /\ UNCHANGED <<args, script_config, store, err, fetched, predeploy_libraries, result,
                   new_sender, relinked_libraries, linked, deployment_sequence, attempted, handed>>

\* mutant: a failed trace decoding is only reported
DecodeTracesFailsIgnored ==
    /\ pc = "branch"
    /\ ~ResumeOrVerifyOnly(args)
    /\ pc' = AfterDecode(args)
    /\ log' = Append(log, Ko("decode_traces"))
    /\ UNCHANGED <<args, script_config, store, err, fetched, predeploy_libraries, result,
                   new_sender, relinked_libraries, linked, deployment_sequence, attempted,
                   handed>>

DecodeTracesFails ==
    /\ ~ResumeOrVerifyOnly(args)
    /\ Fail("branch", <<Ko("decode_traces")>>, Err("decode_traces"))

\* lines 102-110
RunDebugger ==
    /\ pc = "debugger"
    /\ pc' = "maybe_prepare_libraries"
    /\ log' = Append(log, Ok("debugger"))
    /\ UNCHANGED <<args, script_config, store, err, fetched, predeploy_libraries, result,
                   new_sender, relinked_libraries, linked, deployment_sequence, attempted, handed>>

RunDebuggerFails == Fail("debugger", <<Ko("debugger")>>, Err("debugger"))

\* ---- maybe_prepare_libraries ----------------------------------------------

\* mutant: the deployments are numbered from the default nonce
lib_deploy_default_nonce(config, libs) ==
    create_deploy_transactions(config.sender, 1, libs, config.fork_url)

\* lines 180-185
lib_deploy(config, libs) ==
    create_deploy_transactions(config.sender, config.sender_nonce, libs, config.fork_url)

\* mutant: the script's transactions come first
PushFront(deploys, transactions) ==
    IF transactions.some THEN Some(transactions.val \o deploys) ELSE transactions

\* lines 187-195: with a transaction list, the deployments followed by the
\* script's transactions; without one, the result stays as it is
PushBack(deploys, transactions) ==
    IF transactions.some THEN Some(deploys \o transactions.val) ELSE transactions

\* lines 159-163 and 179-197: no new sender
PrepareLibraries ==
    /\ pc = "maybe_prepare_libraries"
    /\ ~maybe_new_sender(script_config.sender, result.transactions,
                         predeploy_libraries).some
    /\ result' = [result EXCEPT !.transactions =
                      PushBack(lib_deploy(script_config, predeploy_libraries), @)]
    /\ log' = log \o <<Ok("maybe_new_sender"), Ok("create_deploy_transactions")>>
    /\ pc' = "show"
    /\ UNCHANGED <<args, script_config, store, err, fetched, predeploy_libraries,
                   new_sender, relinked_libraries, linked, deployment_sequence, attempted, handed>>

\* lines 159-166: a new sender; predeploy_libraries is not used again
NewSender ==
    /\ pc = "maybe_prepare_libraries"
    /\ maybe_new_sender(script_config.sender, result.transactions,
                        predeploy_libraries).some
    /\ new_sender' = maybe_new_sender(script_config.sender, result.transactions,
                                      predeploy_libraries)
    /\ predeploy_libraries' = <<>>
    /\ log' = Append(log, Ok("maybe_new_sender"))
    /\ pc' = "rerun_with_new_deployer"
    /\ UNCHANGED <<args, script_config, store, err, fetched, result,
                   relinked_libraries, linked, deployment_sequence, attempted, handed>>

\* line 163
MaybeNewSenderFails ==
    Fail("maybe_prepare_libraries", <<Ko("maybe_new_sender")>>, Err("maybe_new_sender"))

\* ---- rerun_with_new_deployer ----------------------------------------------

\* mutant: without a fork URL the rerun goes on with the nonce it has
RerunNoForkUrlIgnored ==
    /\ pc = "rerun_with_new_deployer"
    /\ ~script_config.fork_url
    /\ pc' = "link_script_target"
    /\ UNCHANGED <<args, script_config, store, err, log, fetched, predeploy_libraries,
                   result, new_sender, relinked_libraries, linked, deployment_sequence, attempted,
                   handed>>

\* lines 327-329
RerunNoForkUrl ==
    /\ ~script_config.fork_url
    /\ Fail("rerun_with_new_deployer", <<>>, Err(NoRpcUrl))

\* lines 325-333
RerunNextNonce ==
    /\ pc = "rerun_with_new_deployer"
    /\ script_config.fork_url
    /\ \E n \in Nonces :
          /\ script_config' = [script_config EXCEPT !.sender_nonce = n]
          /\ fetched' = [some |-> TRUE, val |-> n]
    /\ log' = Append(log, Ok("next_nonce"))
    /\ pc' = "link_script_target"
    /\ UNCHANGED <<args, store, err, predeploy_libraries, result, new_sender,
                   relinked_libraries, linked, deployment_sequence, attempted, handed>>

RerunNextNonceFails ==
    /\ script_config.fork_url
    /\ Fail("rerun_with_new_deployer", <<Ko("next_nonce")>>, Err("next_nonce"))

\* lines 336-344
RerunLink ==
    /\ pc = "link_script_target"
    /\ \E libs \in LibLists : relinked_libraries' = libs
    /\ linked' = [sender |-> new_sender.val, nonce |-> fetched.val]
    /\ log' = Append(log, Ok("link_script_target"))
    /\ pc' = "rerun_execute"
    /\ UNCHANGED <<args, script_config, store, err, fetched, predeploy_libraries, result,
                   new_sender, deployment_sequence, attempted, handed>>

\* line 336
RerunRemappingsFail ==
    Fail("link_script_target", <<Ko("libraries_with_remappings")>>,
         Err("libraries_with_remappings"))

\* line 339
RerunLinkFails ==
    Fail("link_script_target", <<Ko("link_script_target")>>, Err("link_script_target"))

\* lines 341-344
RerunTargetNotFound ==
    Fail("link_script_target", <<Ok("link_script_target")>>, Err(TargetNotFound))

\* mutant: the deployments of the rerun are made for the first sender
rerun_txs_first_sender(sender, config, libs) ==
    create_deploy_transactions(config.sender, config.sender_nonce, libs, config.fork_url)

\* lines 346-351
rerun_txs(sender, config, libs) ==
    create_deploy_transactions(sender, config.sender_nonce, libs, config.fork_url)

\* mutant: the rerun's transactions are added to the first run's
SupersedeAppend(first_run_result, txs, rerun) ==
    [rerun EXCEPT !.transactions =
        Some(first_run_result.transactions.val \o txs \o rerun.transactions.val)]

\* lines 357-367: the rerun's result, its transactions the deployments
\* followed by the rerun's own
Supersede(first_run_result, txs, rerun) ==
    [rerun EXCEPT !.transactions =
        Some(IF rerun.transactions.some THEN txs \o rerun.transactions.val ELSE txs)]

\* lines 346-369
RerunExecute ==
    /\ pc = "rerun_execute"
    /\ \E r \in ExecuteResults(new_sender.val, script_config.sender_nonce,
                               relinked_libraries, 2, script_config.fork_url) :
          result' = Supersede(result,
                              rerun_txs(new_sender.val, script_config, relinked_libraries),
                              r)
    /\ log' = log \o <<Ok("create_deploy_transactions"), Ok("execute")>>
    /\ pc' = "redecode_traces"
    /\ UNCHANGED <<args, script_config, store, err, fetched, predeploy_libraries,
                   new_sender, relinked_libraries, linked, deployment_sequence, attempted, handed>>

\* mutant: a failed re-execution is ignored and the first run's result kept
RerunExecuteFailsIgnored ==
    /\ pc = "rerun_execute"
    /\ log' = log \o <<Ok("create_deploy_transactions"), Ko("execute")>>
    /\ pc' = "redecode_traces"
    /\ UNCHANGED <<args, script_config, store, err, fetched, predeploy_libraries, result,
                   new_sender, relinked_libraries, linked, deployment_sequence, attempted, handed>>

\* lines 353-355
RerunExecuteFails ==
    Fail("rerun_execute", <<Ok("create_deploy_transactions"), Ko("execute")>>,
         Err("execute"))

\* mutant: after the rerun the sender is checked again
RedecodeTracesRetry ==
    /\ pc = "redecode_traces"
    /\ log' = Append(log, Ok("decode_traces"))
    /\ pc' = "maybe_prepare_libraries"
    /\ UNCHANGED <<args, script_config, store, err, fetched, predeploy_libraries, result,
                   new_sender, relinked_libraries, linked, deployment_sequence, attempted, handed>>

\* lines 169-176
RedecodeTraces ==
    /\ pc = "redecode_traces"
    /\ log' = Append(log, Ok("decode_traces"))
    /\ pc' = "show"
    /\ UNCHANGED <<args, script_config, store, err, fetched, predeploy_libraries, result,
                   new_sender, relinked_libraries, linked, deployment_sequence, attempted, handed>>

RedecodeTracesFails ==
    Fail("redecode_traces", <<Ko("decode_traces")>>, Err("decode_traces"))

\* ---- run_script, after maybe_prepare_libraries ------------------------------

\* lines 127-131
Show(a) == IF a.json THEN "show_json" ELSE "show_traces"

\* mutant: both views are shown
ShowResultBoth ==
    /\ pc = "show"
    /\ log' = log \o <<Ok("show_json"), Ok("show_traces")>>
    /\ pc' = "check_contract_sizes"
    /\ UNCHANGED <<args, script_config, store, err, fetched, predeploy_libraries, result,
                   new_sender, relinked_libraries, linked, deployment_sequence, attempted,
                   handed>>

ShowResult ==
    /\ pc = "show"
    /\ log' = Append(log, Ok(Show(args)))
    /\ pc' = "check_contract_sizes"
    /\ UNCHANGED <<args, script_config, store, err, fetched, predeploy_libraries, result,
                   new_sender, relinked_libraries, linked, deployment_sequence, attempted, handed>>

ShowResultFails == Fail("show", <<Ko(Show(args))>>, Err(Show(args)))

\* line 134
ContractSizesFail ==
    Fail("check_contract_sizes", <<Ko("check_contract_sizes")>>,
         Err("check_contract_sizes"))

\* line 136
SignersFail ==
    Fail("check_contract_sizes", <<Ok("check_contract_sizes"), Ko("into_signers")>>,
         Err("into_signers"))

\* lines 133-146: the broadcast stage takes the result over
HandleBroadcastableTransactions ==
    /\ pc = "check_contract_sizes"
    /\ handed' = result.transactions
    /\ log' = log \o <<Ok("check_contract_sizes"), Ok("handle_broadcastable_transactions")>>
    /\ pc' = "broadcast_stage"
    /\ UNCHANGED <<args, script_config, store, err, fetched, predeploy_libraries, result,
                   new_sender, relinked_libraries, linked, deployment_sequence, attempted>>

\* ---- the sequence store, the receipt poller and the sender ----------------

ModeOf(broadcasted) == IF broadcasted THEN "broadcast" ELSE "dry-run"
LoadOp(broadcasted) == IF broadcasted THEN "load_broadcast" ELSE "load_dry_run"

\* ScriptSequence::load returns the record of the mode, or fails when there
\* is none or it cannot be read
ScriptSequenceLoad(st, broadcasted) == st[ModeOf(broadcasted)] = "present"

\* the receipt states a persisted record can hold: a dry-run record was never
\* sent, a broadcast record holds confirmed, pending and unsent transactions
Records(mode) ==
    UNION {[1..n -> IF mode = "dry-run" THEN {"unsent"} ELSE Receipts] : n \in 0..MaxSeq}

\* wait_for_pending attaches the receipts of the pending transactions
WaitForPending(txs) ==
    [i \in 1..Len(txs) |-> IF txs[i] = "pending" THEN "confirmed" ELSE txs[i]]

NoReceipt(txs) == {i \in 1..Len(txs) : txs[i] # "confirmed"}
Min(S) == CHOOSE i \in S : \A j \in S : i <= j
Max(S) == CHOOSE i \in S : \A j \in S : i >= j

\* ---- resume_deployment ------------------------------------------------------

\* lines 231-233: an error of resume_single_deployment gets the --multi advice
MapErr(m) == [msg |-> m, multi_hint |-> TRUE]

\* lines 209-216
MultiLoadFails ==
    /\ args.multi
    /\ Fail("resume_deployment", <<Ko("multi_load")>>, Err("multi_load"))

\* lines 209-223
MultiChainDeployment ==
    /\ pc = "resume_deployment"
    /\ args.multi
    /\ log' = log \o <<Ok("multi_load"), Ok("multi_chain_deployment")>>
    /\ pc' = "done"
    /\ UNCHANGED <<args, script_config, store, err, fetched, predeploy_libraries, result,
                   new_sender, relinked_libraries, linked, deployment_sequence, attempted, handed>>

MultiChainDeploymentFails ==
    /\ args.multi
    /\ Fail("resume_deployment", <<Ok("multi_load"), Ko("multi_chain_deployment")>>,
            Err("multi_chain_deployment"))

\* ---- resume_single_deployment ------------------------------------------------

\* lines 246-250
MissingForkUrlFails ==
    /\ ~args.multi
    /\ ~script_config.fork_url
    /\ Fail("resume_deployment", <<>>, MapErr(MissingForkUrl))

\* line 251
ProviderFails ==
    /\ ~args.multi
    /\ script_config.fork_url
    /\ Fail("resume_deployment", <<Ko("try_get_http_provider")>>,
            MapErr("try_get_http_provider"))

\* lines 251-254
GetChainId ==
    /\ pc = "resume_deployment"
    /\ ~args.multi
    /\ script_config.fork_url
    /\ log' = log \o <<Ok("try_get_http_provider"), Ok("get_chainid")>>
    /\ pc' = "load"
    /\ UNCHANGED <<args, script_config, store, err, fetched, predeploy_libraries, result,
                   new_sender, relinked_libraries, linked, deployment_sequence, attempted, handed>>

GetChainIdFails ==
    /\ ~args.multi
    /\ script_config.fork_url
    /\ Fail("resume_deployment", <<Ok("try_get_http_provider"), Ko("get_chainid")>>,
            MapErr("get_chainid"))

\* mutant: the broadcast record is always looked for first
BroadcastedAlways(a) == TRUE

\* line 256
Broadcasted(a) == a.broadcast \/ a.resume

\* mutant: no fallback to the dry-run record
LoadedModeNoFallback(st, broadcasted) ==
    IF ScriptSequenceLoad(st, broadcasted) THEN ModeOf(broadcasted) ELSE "none"

\* lines 257-275: the mode of the record the match yields, "none" when it
\* ends in an error
LoadedMode(st, broadcasted) ==
    IF ScriptSequenceLoad(st, broadcasted) THEN ModeOf(broadcasted)
    ELSE IF broadcasted /\ ScriptSequenceLoad(st, FALSE) THEN "dry-run"
    ELSE "none"

\* lines 257-275: the load calls the match makes
LoadCalls(st, broadcasted) ==
    IF ScriptSequenceLoad(st, broadcasted) THEN <<Ok(LoadOp(broadcasted))>>
    ELSE IF broadcasted
         THEN <<Ko("load_broadcast"),
                IF ScriptSequenceLoad(st, FALSE) THEN Ok("load_dry_run")
                                                 ELSE Ko("load_dry_run")>>
         ELSE <<Ko("load_dry_run")>>

\* mutants: the send is not tied to --resume, the preflight check is left out
AfterWaitAlwaysSends(a) == "send_transactions"
AfterLoadSkipsPreflight(a) == "wait_for_pending"

AfterSend(a) == IF a.verify THEN "verify" ELSE "done"
AfterWait(a) == IF a.resume THEN "send_transactions" ELSE AfterSend(a)
AfterLoad(a) == IF a.verify THEN "verify_preflight_check" ELSE "wait_for_pending"

\* lines 256-275
Load ==
    /\ pc = "load"
    /\ LoadedMode(store, Broadcasted(args)) # "none"
    /\ \E txs \in Records(LoadedMode(store, Broadcasted(args))) :
          deployment_sequence' = [mode |-> LoadedMode(store, Broadcasted(args)),
                                  txs |-> txs]
    /\ log' = log \o LoadCalls(store, Broadcasted(args))
    /\ pc' = AfterLoad(args)
    /\ UNCHANGED <<args, script_config, store, err, fetched, predeploy_libraries, result,
                   new_sender, relinked_libraries, linked, attempted, handed>>

LoadFails ==
    /\ LoadedMode(store, Broadcasted(args)) = "none"
    /\ Fail("load", LoadCalls(store, Broadcasted(args)), MapErr("load"))

\* lines 277-279
VerifyPreflightCheck ==
    /\ pc = "verify_preflight_check"
    /\ log' = Append(log, Ok("verify_preflight_check"))
    /\ pc' = "wait_for_pending"
    /\ UNCHANGED <<args, script_config, store, err, fetched, predeploy_libraries, result,
                   new_sender, relinked_libraries, linked, deployment_sequence, attempted, handed>>

VerifyPreflightCheckFails ==
    Fail("verify_preflight_check", <<Ko("verify_preflight_check")>>,
         MapErr("verify_preflight_check"))

\* line 281
WaitPending ==
    /\ pc = "wait_for_pending"
    /\ deployment_sequence' = [deployment_sequence EXCEPT !.txs = WaitForPending(@)]
    /\ log' = Append(log, Ok("wait_for_pending"))
    /\ pc' = AfterWait(args)
    /\ UNCHANGED <<args, script_config, store, err, fetched, predeploy_libraries, result,
                   new_sender, relinked_libraries, linked, attempted, handed>>

WaitPendingFails ==
    Fail("wait_for_pending", <<Ko("wait_for_pending")>>, MapErr("wait_for_pending"))

\* lines 283-285, inside send_transactions: the next transaction without a
\* receipt is sent and confirmed
SendTx ==
    /\ pc = "send_transactions"
    /\ NoReceipt(deployment_sequence.txs) # {}
    /\ LET i == Min(NoReceipt(deployment_sequence.txs))
       IN  /\ deployment_sequence' = [deployment_sequence EXCEPT !.txs[i] = "confirmed"]
           /\ attempted' = attempted \cup {i}
    /\ UNCHANGED <<args, script_config, store, pc, err, log, fetched, predeploy_libraries,
                   result, new_sender, relinked_libraries, linked, handed>>

\* lines 283-285: send_transactions returns once every transaction has a receipt
SendDone ==
    /\ pc = "send_transactions"
    /\ NoReceipt(deployment_sequence.txs) = {}
    /\ log' = Append(log, Ok("send_transactions"))
    /\ pc' = AfterSend(args)
    /\ UNCHANGED <<args, script_config, store, err, fetched, predeploy_libraries, result,
                   new_sender, relinked_libraries, linked, deployment_sequence, attempted, handed>>

\* mutant: the error of send_transactions is dropped
SendFailedContinues(a) == AfterSend(a)

\* where run_script goes when a send fails: line 284 returns the error
SendFailed(a) == "error"

\* lines 283-285: a send fails, send_transactions returns the error
SendTxFails ==
    /\ pc = "send_transactions"
    /\ NoReceipt(deployment_sequence.txs) # {}
    /\ attempted' = attempted \cup {Min(NoReceipt(deployment_sequence.txs))}
    /\ log' = Append(log, Ko("send_transactions"))
    /\ pc' = SendFailed(args)
    /\ err' = IF SendFailed(args) = "error" THEN MapErr("send_transactions") ELSE err
    /\ UNCHANGED <<args, script_config, store, fetched, predeploy_libraries, result,
                   new_sender, relinked_libraries, linked, deployment_sequence, handed>>

\* line 289
LibrariesParseFails ==
    Fail("verify", <<Ko("Libraries::parse")>>, MapErr("Libraries::parse"))

\* lines 294-300
VerifyLinkFails ==
    Fail("verify", <<Ko("link_script_target")>>, MapErr("link_script_target"))

\* mutant: one library left to predeploy is let through
IncompleteMoreThanOne(libs) == Len(libs) > 1

\* line 302
Incomplete(libs) == libs # <<>>

\* lines 294-304: the relink leaves libraries to predeploy
IncompleteLibraries ==
    /\ pc = "verify"
    /\ \E libs \in LibLists :
          /\ Incomplete(libs)
          /\ relinked_libraries' = libs
    /\ linked' = [sender |-> script_config.sender, nonce |-> 0]
    /\ log' = Append(log, Ok("link_script_target"))
    /\ pc' = "error"
    /\ err' = MapErr(IncompleteLibs)
    /\ UNCHANGED <<args, script_config, store, fetched, predeploy_libraries, result,
                   new_sender, deployment_sequence, attempted, handed>>

\* lines 294-311
VerifyContracts ==
    /\ pc = "verify"
    /\ \E libs \in LibLists :
          /\ ~Incomplete(libs)
          /\ relinked_libraries' = libs
    /\ linked' = [sender |-> script_config.sender, nonce |-> 0]
    /\ log' = log \o <<Ok("link_script_target"), Ok("verify_contracts")>>
    /\ pc' = "done"
    /\ UNCHANGED <<args, script_config, store, err, fetched, predeploy_libraries, result,
                   new_sender, deployment_sequence, attempted, handed>>

\* line 308
VerifyContractsFails ==
    /\ pc = "verify"
    /\ \E libs \in LibLists :
          /\ ~Incomplete(libs)
          /\ relinked_libraries' = libs
    /\ linked' = [sender |-> script_config.sender, nonce |-> 0]
    /\ log' = log \o <<Ok("link_script_target"), Ko("verify_contracts")>>
    /\ pc' = "error"
    /\ err' = MapErr("verify_contracts")
    /\ UNCHANGED <<args, script_config, store, fetched, predeploy_libraries, result,
                   new_sender, deployment_sequence, attempted, handed>>

Next ==
    \/ NextNonce
    \/ NextNonceFails
    \/ NoFork
    \/ Compile
    \/ CompileFails
    \/ MultiWalletFails
    \/ Execute
    \/ ExecuteFails
    \/ ResumeBranch
    \/ ResumeSignersFail
    \/ DecodeTraces
    \/ DecodeTracesFails
    \/ RunDebugger
    \/ RunDebuggerFails
    \/ PrepareLibraries
    \/ NewSender
    \/ MaybeNewSenderFails
    \/ RerunNoForkUrl
    \/ RerunNextNonce
    \/ RerunNextNonceFails
    \/ RerunLink
    \/ RerunRemappingsFail
    \/ RerunLinkFails
    \/ RerunTargetNotFound
    \/ RerunExecute
    \/ RerunExecuteFails
    \/ RedecodeTraces
    \/ RedecodeTracesFails
    \/ ShowResult
    \/ ShowResultFails
    \/ ContractSizesFail
    \/ SignersFail
    \/ HandleBroadcastableTransactions
    \/ MultiLoadFails
    \/ MultiChainDeployment
    \/ MultiChainDeploymentFails
    \/ MissingForkUrlFails
    \/ ProviderFails
    \/ GetChainId
    \/ GetChainIdFails
    \/ Load
    \/ LoadFails
    \/ VerifyPreflightCheck
    \/ VerifyPreflightCheckFails
    \/ WaitPending
    \/ WaitPendingFails
    \/ SendTx
    \/ SendDone
    \/ SendTxFails
    \/ LibrariesParseFails
    \/ VerifyLinkFails
    \/ IncompleteLibraries
    \/ VerifyContracts
    \/ VerifyContractsFails

Spec == Init /\ [][Next]_vars

\* ---- properties --------------------------------------------------------------

IndexOf(op) == Min({i \in 1..Len(log) : log[i].op = op})
Terminal == pc \in {"broadcast_stage", "done", "error"}

\* the predeploy libraries of the pass that produced the result
PassLibraries == IF result.pass = 2 THEN relinked_libraries ELSE predeploy_libraries

\* C1: in the queue a fresh pass hands to the broadcast stage, on the
\* unchanged-sender path and on the rerun path, the predeploy deployments come
\* first, one per library in the order of the pass's predeploy list, and the
\* script's transactions follow in the order the simulation generated them.
C1_PredeployFirstInOrder ==
    (pc = "broadcast_stage" /\ handed.some) =>
        LET q == handed.val
            k == Len(PassLibraries)
        IN  /\ Len(q) >= k
            /\ \A i \in 1..Len(q) :
                  IF i <= k
                  THEN q[i].kind = "lib" /\ q[i].data = PassLibraries[i]
                  ELSE q[i].kind = "body" /\ q[i].data = i - k
            /\ \A i, j \in 1..Len(q) :
                  (q[i].kind = "lib" /\ q[j].kind = "body") => i < j

C1_Witness ==
    /\ pc = "broadcast_stage"
    /\ handed.some
    /\ result.pass = 1
    /\ predeploy_libraries = <<2, 1>>
    /\ Len(handed.val) = 4

\* the sender detection found the first pass's transactions inconsistent
\* with the default sender, and the run got past the rerun
Rerun ==
    /\ new_sender.some
    /\ pc \in {"redecode_traces", "show", "check_contract_sizes", "broadcast_stage"}

\* C2: when maybe_new_sender returns a new sender, the script is executed
\* once more and never again, after a nonce fetch for the new sender made
\* after the detection; the result is the rerun's, and the queue handed to the
\* broadcast stage holds the rerun's deployments and transactions and none of
\* the first pass.
C2_ExactlyOneRerun ==
    /\ new_sender.some => Count("execute") <= 2 /\ Count("maybe_new_sender") = 1
    /\ Rerun =>
          /\ Count("execute") = 2
          /\ Count("next_nonce") = 2
          /\ \E i, j, l \in 1..Len(log) :
                /\ i < j /\ j < l
                /\ log[i] = Ok("maybe_new_sender")
                /\ log[j] = Ok("next_nonce")
                /\ log[l] = Ok("execute")
          /\ fetched.some /\ script_config.sender_nonce = fetched.val
          /\ result.pass = 2
          /\ result.transactions.some
          /\ \A i \in 1..Len(result.transactions.val) :
                /\ result.transactions.val[i].pass # 1
                /\ result.transactions.val[i].from = new_sender.val
          /\ pc = "broadcast_stage" => handed = result.transactions

C2_Witness ==
    /\ pc = "broadcast_stage"
    /\ new_sender.some
    /\ Len(handed.val) = 3
    /\ relinked_libraries = <<1>>

\* C3 as stated: a run with --resume, or with --verify and no --broadcast,
\* never calls execute.
C3_ResumeNeverExecutes ==
    ResumeOrVerifyOnly(args) => ~Called("execute")

\* C3: a run with --resume, or with --verify and no --broadcast, calls
\* execute exactly once, before it enters resume_deployment; loading and
\* resuming the sequence call it no more.
C3_ExecutesOnceBeforeResume ==
    Called("resume_deployment") =>
        /\ ResumeOrVerifyOnly(args)
        /\ Count("execute") = 1
        /\ \A i \in 1..Len(log) :
              log[i].op = "execute" => log[i].ok /\ i < IndexOf("resume_deployment")

C3_Witness ==
    /\ pc = "done"
    /\ args.resume
    /\ deployment_sequence.mode = "broadcast"
    /\ attempted = {2, 3}
    /\ Called("send_transactions")

\* C4: on the single-chain path with --resume, once the load of the
\* broadcast record has failed: with a readable dry-run record the sequence
\* loaded is the dry-run record and the load is no error; without one the run
\* ends in an error that carries the --multi advice, and nothing is polled,
\* sent or verified.
C4_ResumeLoadFallback ==
    (args.resume /\ FailedCall("load_broadcast")) =>
        /\ store["dry-run"] = "present" =>
              /\ deployment_sequence.mode = "dry-run"
              /\ log[IndexOf("load_broadcast") + 1] = Ok("load_dry_run")
              /\ err.msg # "load"
        /\ store["dry-run"] # "present" =>
              /\ pc = "error"
              /\ err = [msg |-> "load", multi_hint |-> TRUE]
              /\ ~Called("wait_for_pending")
              /\ ~Called("send_transactions")
              /\ ~Called("verify_contracts")
              /\ attempted = {}

C4_Witness ==
    /\ args.resume
    /\ store = [m \in Modes |-> IF m = "dry-run" THEN "present" ELSE "absent"]
    /\ pc = "done"
    /\ deployment_sequence.mode = "dry-run"
    /\ attempted = {1, 2}

\* C5: on the single-chain resume/verify path with --verify, when the relink
\* with the sequence's recorded libraries leaves a library to predeploy, the
\* run ends in the error "Incomplete set of libraries in deployment artifact."
\* and verify_contracts is not called.
C5_IncompleteLibrariesFail ==
    (Called("resume_deployment") /\ relinked_libraries # <<>>) =>
        /\ args.verify
        /\ pc = "error"
        /\ err.msg = IncompleteLibs
        /\ ~Called("verify_contracts")

C5_Witness ==
    /\ Called("resume_deployment")
    /\ args.verify
    /\ Called("send_transactions")
    /\ Len(relinked_libraries) = 1
    /\ pc = "error"

\* C6: in the queue a pass hands to the broadcast stage under a sender whose
\* fetched on-chain nonce is n, with k predeploy libraries, the i-th
\* transaction has nonce n + i - 1: the deployments take n .. n+k-1 in list
\* order, the script's transactions the nonces after them, none twice.
C6_ContiguousNonces ==
    (pc = "broadcast_stage" /\ handed.some /\ fetched.some) =>
        LET q == handed.val
            k == Len(PassLibraries)
        IN  /\ \A i \in 1..Len(q) :
                  /\ q[i].nonce = fetched.val + (i - 1)
                  /\ (i <= k) <=> (q[i].kind = "lib")
            /\ \A i, j \in 1..Len(q) : i # j => q[i].nonce # q[j].nonce
            /\ Len(q) >= k

C6_Witness ==
    /\ pc = "broadcast_stage"
    /\ result.pass = 1
    /\ fetched = [some |-> TRUE, val |-> 0]
    /\ Len(predeploy_libraries) = 2
    /\ handed.some
    /\ Len(handed.val) = 4

\* C7: a failed send ends the run in an error: no later transaction of the
\* sequence is sent, verify_contracts is not called, the transaction whose
\* send failed stays without a receipt, and a transaction that has a receipt
\* keeps it.
C7_SendFailureHalts ==
    /\ [](FailedCall("send_transactions") =>
            /\ pc = "error"
            /\ err.msg = "send_transactions"
            /\ ~Called("verify_contracts")
            /\ attempted # {}
            /\ deployment_sequence.txs[Max(attempted)] # "confirmed"
            /\ \A i \in 1..Len(deployment_sequence.txs) :
                  i < Max(attempted) => deployment_sequence.txs[i] = "confirmed")
    /\ [][/\ \A i \in 1..Len(deployment_sequence.txs) :
                deployment_sequence.txs[i] = "confirmed" =>
                    deployment_sequence'.txs[i] = "confirmed"
          /\ FailedCall("send_transactions") =>
                UNCHANGED <<deployment_sequence, attempted>>]_vars

C7_Witness ==
    /\ FailedCall("send_transactions")
    /\ deployment_sequence.txs = <<"confirmed", "unsent", "unsent">>
    /\ attempted = {2}

\* C8: with a new sender required and no fork URL, rerun_with_new_deployer
\* fails with its RPC URL error before any relink or re-execution; the first
\* pass's result and the sender nonce stay as they were, nothing is shown and
\* nothing reaches the broadcast stage.
C8_RerunNeedsForkUrl ==
    (new_sender.some /\ ~script_config.fork_url /\ pc # "rerun_with_new_deployer") =>
        /\ pc = "error"
        /\ err = Err(NoRpcUrl)
        /\ ~Called("link_script_target")
        /\ Count("execute") = 1
        /\ Count("next_nonce") = 0
        /\ result.pass = 1
        /\ \A i \in 1..Len(result.transactions.val) :
              result.transactions.val[i].kind = "body"
        /\ script_config.sender_nonce = 1
        /\ ~Called("show_json") /\ ~Called("show_traces")
        /\ ~Called("handle_broadcastable_transactions")
        /\ ~handed.some

C8_Witness ==
    /\ new_sender.some
    /\ err.msg = NoRpcUrl
    /\ pc = "error"

\* C9: once a compilation, a link or an execution of a fresh pass has failed,
\* the run has ended in an error and handle_broadcastable_transactions, which
\* persists the sequence, is never called.
C9_FailedPassNotBroadcast ==
    (\/ FailedCall("compile")
     \/ FailedCall("execute")
     \/ FailedCall("libraries_with_remappings")
     \/ FailedCall("link_script_target")
     \/ err.msg = TargetNotFound) =>
        /\ pc = "error"
        /\ ~Called("handle_broadcastable_transactions")
        /\ ~handed.some

C9_Witness ==
    /\ pc = "error"
    /\ Count("execute") = 2
    /\ FailedCall("execute")

\* the rerun's transactions still reference library addresses of another
\* deployer than the new sender
PersistentMismatch ==
    /\ result.pass = 2
    /\ maybe_new_sender(new_sender.val, result.transactions, relinked_libraries).some

\* C10 as stated: sender detection runs at most once, the executor at most
\* twice, and a run whose rerun output still mismatches ends in an error and
\* hands no queue to the broadcast stage.
C10_PersistentMismatchFatal ==
    /\ Count("maybe_new_sender") <= 1
    /\ Count("execute") <= 2
    /\ (PersistentMismatch /\ Terminal) => (pc = "error" /\ ~handed.some)

\* C10: sender detection runs at most once and the executor at most twice; a
\* mismatch that persists after the rerun is neither detected nor retried:
\* unless a later step fails, the rerun's queue reaches the broadcast stage.
C10_PersistentMismatchNotRetried ==
    /\ Count("maybe_new_sender") <= 1
    /\ Count("execute") <= 2
    /\ PersistentMismatch =>
          /\ Count("maybe_new_sender") = 1
          /\ Count("execute") = 2
          /\ pc = "error" =>
                err.msg \in {"decode_traces", "show_json", "show_traces",
                             "check_contract_sizes", "into_signers"}
          /\ pc = "broadcast_stage" => handed = result.transactions

C10_Witness ==
    /\ PersistentMismatch
    /\ pc = "broadcast_stage"
    /\ handed.some
    /\ Len(handed.val) = 3

\* the first pass: from the compilation to the sender detection
FirstPass == pc \in {"compile", "execute", "branch", "debugger", "maybe_prepare_libraries"}

\* C11: in the first pass, with a fork URL the sender nonce is the nonce
\* fetched for the sender and the configured library addresses are kept;
\* without one the configured library addresses are dropped and the sender
\* nonce is 1.  The transactions of the first execution are numbered from
\* that nonce.
C11_FirstPassNonce ==
    FirstPass =>
        /\ script_config.fork_url =>
              /\ log[1] = Ok("next_nonce")
              /\ fetched.some
              /\ script_config.sender_nonce = fetched.val
              /\ script_config.libraries = "configured"
        /\ ~script_config.fork_url =>
              /\ ~Called("next_nonce")
              /\ script_config.sender_nonce = 1
              /\ script_config.libraries = "empty"
        /\ (pc = "branch" /\ result.transactions.some) =>
              \A i \in 1..Len(result.transactions.val) :
                  /\ result.transactions.val[i].from = script_config.sender
                  /\ result.transactions.val[i].nonce =
                        script_config.sender_nonce + Len(predeploy_libraries) + (i - 1)

C11_Witness ==
    /\ pc = "branch"
    /\ ~script_config.fork_url
    /\ script_config.libraries = "empty"
    /\ Len(predeploy_libraries) = 1
    /\ result.transactions.some
    /\ Len(result.transactions.val) = 2

Shows == {i \in 1..Len(log) : log[i].op \in {"show_json", "show_traces"}}

\* C12: a fresh pass shows its results at most once, as JSON with --json and
\* as traces without, never both; a pass that reaches the broadcast stage has
\* shown them exactly once, after every execution, sender detection and
\* relink, and before handle_broadcastable_transactions.
C12_RenderedOnceBeforeBroadcast ==
    /\ Cardinality(Shows) <= 1
    /\ \A i \in Shows :
          /\ log[i].op = (IF args.json THEN "show_json" ELSE "show_traces")
          /\ \A j \in 1..Len(log) :
                log[j].op \in {"execute", "maybe_new_sender", "link_script_target",
                               "create_deploy_transactions", "decode_traces"} => j < i
    /\ Called("handle_broadcastable_transactions") =>
          /\ Cardinality(Shows) = 1
          /\ \A i \in Shows : log[i].ok /\ i < IndexOf("handle_broadcastable_transactions")

C12_Witness ==
    /\ pc = "broadcast_stage"
    /\ new_sender.some
    /\ args.json
    /\ Count("show_json") = 1
    /\ ~Called("show_traces")

\* C13 as stated: a failed trace decoding or a failed debugger run does not
\* end the run.
C13_DecodeFailureNotFatal ==
    (FailedCall("decode_traces") \/ FailedCall("debugger")) => pc # "error"

\* C13: a failed trace decoding or a failed debugger run ends the run like
\* every other error: no queue is handed to the broadcast stage.  Every failed
\* call is the last one the run makes, but for a failed load of the broadcast
\* record, which falls back to the dry-run record.
C13_EveryFailureFatal ==
    /\ (FailedCall("decode_traces") \/ FailedCall("debugger")) =>
          /\ pc = "error"
          /\ err.msg \in {"decode_traces", "debugger"}
          /\ ~Called("handle_broadcastable_transactions")
          /\ ~handed.some
    /\ \A i \in 1..Len(log) :
          (~log[i].ok /\ log[i].op # "load_broadcast") =>
              /\ pc = "error"
              /\ i = Len(log)
              /\ ~handed.some

C13_Witness ==
    /\ FailedCall("debugger")
    /\ pc = "error"
    /\ result.transactions.some
    /\ Len(result.transactions.val) = 2

\* every call of a in the log comes before every call of b
Precedes(a, b) ==
    \A i, j \in 1..Len(log) : (log[i].op = a /\ log[j].op = b) => i < j

\* C14 as stated: with --verify the preflight check comes before any network
\* work of the resume path, the chain id lookup included.
C14_PreflightBeforeChainId ==
    /\ Precedes("verify_preflight_check", "get_chainid")
    /\ Precedes("verify_preflight_check", "wait_for_pending")
    /\ Precedes("verify_preflight_check", "send_transactions")
    /\ Precedes("verify_preflight_check", "verify_contracts")

\* C14: on the resume path with --verify the chain id is looked up before the
\* sequence is loaded, and the preflight check on the loaded sequence comes
\* before the receipt polling, the sending and the verification; a failed
\* preflight check ends the run with none of these three performed.
C14_PreflightBeforeReceipts ==
    /\ Precedes("get_chainid", "verify_preflight_check")
    /\ Precedes("get_chainid", "load_broadcast")
    /\ Precedes("get_chainid", "load_dry_run")
    /\ Precedes("verify_preflight_check", "wait_for_pending")
    /\ Precedes("verify_preflight_check", "send_transactions")
    /\ Precedes("verify_preflight_check", "verify_contracts")
    /\ Called("verify_preflight_check") => args.verify /\ Called("get_chainid")
    /\ (args.verify /\ (Called("wait_for_pending") \/ Called("send_transactions")
                        \/ Called("verify_contracts") \/ attempted # {})) =>
          /\ Count("verify_preflight_check") = 1
          /\ ~FailedCall("verify_preflight_check")
    /\ FailedCall("verify_preflight_check") =>
          /\ pc = "error"
          /\ err = MapErr("verify_preflight_check")
          /\ ~Called("wait_for_pending")
          /\ ~Called("send_transactions")
          /\ ~Called("verify_contracts")
          /\ attempted = {}

C14_Witness ==
    /\ FailedCall("verify_preflight_check")
    /\ pc = "error"
    /\ args.resume
    /\ NoReceipt(deployment_sequence.txs) # {}

\* C15: without a sender change and with predeploy libraries, the queue handed
\* to the broadcast stage is one deployment per predeploy library followed by
\* the transactions of the script body, also when the script body generated
\* none (result.transactions absent).
C15_LibrariesAlwaysQueued ==
    (pc = "broadcast_stage" /\ ~new_sender.some /\ predeploy_libraries # <<>>) =>
        /\ handed.some
        /\ Len(handed.val) >= Len(predeploy_libraries)
        /\ \A i \in 1..Len(predeploy_libraries) :
              /\ handed.val[i].kind = "lib"
              /\ handed.val[i].data = predeploy_libraries[i]

\* C16: after a sender change the relink, the library deployments and the
\* re-execution use the new sender and its fetched nonce: the sender nonce
\* becomes that nonce, the first library deployment carries it, and every
\* transaction of the final queue is from the new sender and numbered from
\* the fetched nonce on.
C16_RerunUsesNewSender ==
    /\ pc \in {"rerun_execute", "redecode_traces"} =>
          /\ new_sender.some
          /\ fetched.some
          /\ linked = [sender |-> new_sender.val, nonce |-> fetched.val]
          /\ script_config.sender_nonce = fetched.val
    /\ Rerun =>
          /\ new_sender.val # script_config.sender
          /\ fetched.some
          /\ linked = [sender |-> new_sender.val, nonce |-> fetched.val]
          /\ script_config.sender_nonce = fetched.val
          /\ result.transactions.some
          /\ \A i \in 1..Len(result.transactions.val) :
                /\ result.transactions.val[i].from = new_sender.val
                /\ result.transactions.val[i].from # script_config.sender
                /\ result.transactions.val[i].nonce = fetched.val + (i - 1)
          /\ relinked_libraries # <<>> =>
                /\ result.transactions.val[1].kind = "lib"
                /\ result.transactions.val[1].nonce = fetched.val
          /\ pc = "broadcast_stage" => handed = result.transactions

C16_Witness ==
    /\ pc = "broadcast_stage"
    /\ new_sender.some
    /\ handed.some
    /\ Len(handed.val) = 4
    /\ handed.val[1].kind = "lib"
    /\ handed.val[1].from = new_sender.val

\* the operations that read a persisted sequence
LoadOps == {"multi_load", "load_broadcast", "load_dry_run"}

\* C17: with --resume, or --verify without --broadcast, the run goes to the
\* resume path and never detects a new sender, reruns, shows results or
\* reaches the broadcast stage; otherwise it never loads a persisted sequence
\* and a run that ends without error ends in the broadcast stage.
C17_OneOfTwoBranches ==
    IF args.resume \/ (args.verify /\ ~args.broadcast)
    THEN /\ \A i \in 1..Len(log) :
               log[i].op \notin {"decode_traces", "debugger", "maybe_new_sender",
                                 "libraries_with_remappings", "create_deploy_transactions",
                                 "show_json", "show_traces", "check_contract_sizes",
                                 "handle_broadcastable_transactions"}
         /\ Count("execute") <= 1
         /\ Count("next_nonce") <= 1
         /\ ~new_sender.some
         /\ ~handed.some
         /\ linked.sender # "" => Called("get_chainid")
         /\ pc \notin {"debugger", "maybe_prepare_libraries", "rerun_with_new_deployer",
                       "link_script_target", "rerun_execute", "redecode_traces", "show",
                       "check_contract_sizes", "broadcast_stage"}
         /\ (Terminal /\ pc # "error") => pc = "done" /\ Called("resume_deployment")
    ELSE /\ \A i \in 1..Len(log) :
               log[i].op \notin LoadOps \cup {"resume_deployment", "get_chainid",
                                              "verify_preflight_check", "wait_for_pending",
                                              "send_transactions", "verify_contracts"}
         /\ deployment_sequence = NoSequence
         /\ attempted = {}
         /\ pc \notin {"resume_deployment", "load", "verify_preflight_check",
                       "wait_for_pending", "send_transactions", "verify", "done"}
         /\ (Terminal /\ pc # "error") =>
               pc = "broadcast_stage" /\ Called("handle_broadcastable_transactions")

C17_Witness ==
    /\ pc = "done"
    /\ ~args.resume
    /\ args.verify
    /\ ~args.broadcast
    /\ Count("execute") = 1
    /\ IndexOf("execute") < IndexOf("resume_deployment")

\* the positions of the load attempts in the log
Loads == {i \in 1..Len(log) : log[i].op \in {"load_broadcast", "load_dry_run"}}

\* C18: on the single-chain resume path the dry-run record is tried as a
\* fallback only with --broadcast or --resume, and then right after every
\* failed load of the broadcast record; with neither flag only the dry-run
\* record is tried, the broadcast record is never consulted, and a failed load
\* ends the run.
C18_FallbackOnlyWhenBroadcasted ==
    /\ Cardinality(Loads) <= 2
    /\ IF args.broadcast \/ args.resume
       THEN /\ Count("load_broadcast") <= 1
            /\ Called("load_dry_run") <=> FailedCall("load_broadcast")
            /\ Called("load_dry_run") =>
                  IndexOf("load_dry_run") = IndexOf("load_broadcast") + 1
            /\ (Loads # {} /\ store["broadcast"] # "present") => Called("load_dry_run")
            /\ (Loads # {} /\ store["broadcast"] = "present") =>
                  deployment_sequence.mode = "broadcast"
       ELSE /\ ~Called("load_broadcast")
            /\ Count("load_dry_run") <= 1
            /\ (Loads # {} /\ pc # "error") => deployment_sequence.mode = "dry-run"
    /\ FailedCall("load_dry_run") =>
          /\ pc = "error"
          /\ err = MapErr("load")
          /\ log[Len(log)] = Ko("load_dry_run")
          /\ deployment_sequence = NoSequence

C18_Witness ==
    /\ ~args.broadcast
    /\ ~args.resume
    /\ args.verify
    /\ store["broadcast"] = "present"
    /\ FailedCall("load_dry_run")
    /\ pc = "error"

\* the place of a step in resume_single_deployment, 0 for every other call
StepRank(op) ==
    CASE op \in {"load_broadcast", "load_dry_run"} -> 1
      [] op = "verify_preflight_check" -> 2
      [] op = "wait_for_pending" -> 3
      [] op = "send_transactions" -> 4
      [] op \in {"Libraries::parse", "link_script_target"} -> 5
      [] op = "verify_contracts" -> 6
      [] OTHER -> 0

\* C19: on the single-chain resume path the steps come in the order load,
\* preflight check (only with --verify), wait for pending receipts (always),
\* send (only with --resume), relink and verify (only with --verify); a failed
\* step is the last one, so nothing is verified after a failed send, and a run
\* without --resume sends nothing.
C19_ResumeStepsInOrder ==
    /\ Called("resume_deployment") =>
          /\ \A i, j \in 1..Len(log) :
                (i < j /\ StepRank(log[i].op) > 0 /\ StepRank(log[j].op) > 0) =>
                    /\ StepRank(log[i].op) <= StepRank(log[j].op)
                    /\ log[i].ok \/ log[i].op = "load_broadcast"
          /\ \A op \in {"verify_preflight_check", "wait_for_pending", "send_transactions",
                        "Libraries::parse", "link_script_target", "verify_contracts"} :
                Count(op) <= 1
          /\ (Called("verify_preflight_check") \/ Called("Libraries::parse")
                \/ Called("link_script_target") \/ Called("verify_contracts")) =>
                args.verify
          /\ (Called("link_script_target") \/ Called("verify_contracts")) =>
                /\ Called("wait_for_pending")
                /\ ~FailedCall("wait_for_pending")
                /\ args.resume => Called("send_transactions")
          /\ Called("verify_contracts") =>
                /\ Called("link_script_target")
                /\ IndexOf("link_script_target") < IndexOf("verify_contracts")
    /\ (Called("send_transactions") \/ attempted # {}) =>
          /\ args.resume
          /\ Called("wait_for_pending")
          /\ ~FailedCall("wait_for_pending")
    /\ FailedCall("send_transactions") =>
          /\ pc = "error"
          /\ ~Called("Libraries::parse")
          /\ ~Called("link_script_target")
          /\ ~Called("verify_contracts")
    /\ (pc = "done" /\ ~args.multi) =>
          /\ Count("wait_for_pending") = 1
          /\ args.verify <=> Called("verify_preflight_check")
          /\ args.resume <=> Called("send_transactions")
          /\ args.verify <=> Called("verify_contracts")

C19_Witness ==
    /\ pc = "done"
    /\ args.resume
    /\ args.verify
    /\ attempted # {}
    /\ Called("verify_contracts")
    /\ IndexOf("send_transactions") < IndexOf("verify_contracts")

=============================================================================
